---- MODULE Spec2Model ----
(***************************************************************************)
(* State-machine model of src/ExchangeRatesAPI.py: the exchange-rate cache *)
(* (one sqlite table keyed by date), the populate pass, the visualization  *)
(* checks and the daily update loop.                                       *)
(*                                                                         *)
(* A calendar date is the number of days since 2019-05-01, the default     *)
(* start date of the script, which is a Wednesday.  The ISO text form of a *)
(* date orders as the date does, so MIN(date)/MAX(date) over the text      *)
(* column are the least and greatest day numbers.                          *)
(***************************************************************************)
EXTENDS Integers, Sequences, FiniteSets, TLC

\* ------------------------------------------------------------------------
\* Bounds of the model
\* ------------------------------------------------------------------------
\* requested start and end dates range over 0..MaxReq
MaxReq == 4
\* the wall clock runs from Today0 up to MaxToday
MaxToday == 6
\* the most days the wall clock advances between two wake-ups of the poller
MaxJump == 3
\* the number of runs of the script in one behaviour
MaxRuns == 2
\* the number of runs in a behaviour of populate-only runs
MaxPopulateRuns == 3
\* the number of runs in a behaviour of runs of any command line
MaxCommandRuns == 2
\* the number of runs in a behaviour of populate and visualize runs
MaxVisualizeRuns == 3
\* the number of runs in a behaviour whose poller is never stopped
MaxLiveRuns == 2

\* ------------------------------------------------------------------------
\* Program constants
\* ------------------------------------------------------------------------
\* isoweekday of day 0 (2019-05-01, a Wednesday)
EpochIsoWeekday == 3
\* the literal 1.0 written for the base currency
One == 1

None == "None"
NoDate == -1

\* currencies the provider knows, in the key order of its JSON answer
ProviderKeys == <<"CAD", "EUR", "USD">>
\* bases a run may request with -b
Bases == {"EUR", "USD"}
\* the provider leaves no base out of its rates, or leaves EUR out
OmitChoices == {{}, {"EUR"}}

Range(s) == {s[i] : i \in DOMAIN s}

Min(S) == CHOOSE x \in S : \A y \in S : x <= y
Max(S) == CHOOSE x \in S : \A y \in S : x >= y

\* ------------------------------------------------------------------------
\* Calendar
\* ------------------------------------------------------------------------
isoweekday(d) == ((d + EpochIsoWeekday - 1) % 7) + 1

\* isoweekdays[dt.isoweekday()] in ['Saturday', 'Sunday']
IsWeekend(d) == isoweekday(d) \in {6, 7}

\* the latest trading day on or before d
RECURSIVE LastTradingDay(_)
LastTradingDay(d) == IF IsWeekend(d) /\ d > 0 THEN LastTradingDay(d - 1) ELSE d

\* range((end - start).days): the end date is left out
DateRange_short(s, e) == [i \in 1..(e - s) |-> s + (i - 1)]

\* date_range = [start + timedelta(days=x) for x in range((end - start).days + 1)]
DateRange(s, e) == [i \in 1..(e - s + 1) |-> s + (i - 1)]

\* ------------------------------------------------------------------------
\* State
\* ------------------------------------------------------------------------
VARIABLES
    \* the store (exchange_rates.db), kept between runs
    table_exists,       \* the table has been created
    columns,            \* its currency columns, in order, as created
    table,              \* its rows in rowid (insertion) order
    committed,          \* the rows as of the latest connection.commit()
    \* the rate provider and the wall clock
    provider_omits,     \* the bases whose own rate the provider leaves out
    today,              \* datetime.now().date()
    \* the running script
    pc,                 \* position of the script
    args,               \* parsed command line
    response,           \* the variable `response`: the latest API answer
    rate_keys,
    table_is_empty,
    base_currency_in_table,
    base_currency_to_use,
    min_date_in_table,
    max_date_in_table,
    dates_to_pull,      \* the dates the populate loop has still to process
    ordered,            \* dates_to_pull is the list date_range (else list(set))
    query_date,
    error,              \* the exception that ended the run, or None
    \* observation of a run
    runs,               \* number of runs started
    table0,             \* the rows the run found when it started
    plan,               \* dates_to_pull as computed by the populate pass
    truncated,          \* the run executed DELETE FROM
    fetched,            \* the API calls made by the run
    added,              \* the rows the run inserted
    warned,             \* behaviours for which warn_about_base_currency ran
    viz_read,           \* dates of the rows the visualization selected
    last_poll,          \* what the latest wake-up of the poller did
    repeated            \* the run repeats the command line of the run before,
                        \* which ran to its end

store == <<table_exists, columns, table, committed>>
env == <<provider_omits, today>>
script == <<pc, args, response, rate_keys, table_is_empty, base_currency_in_table,
            base_currency_to_use, min_date_in_table, max_date_in_table,
            dates_to_pull, ordered, query_date, error>>
obs == <<runs, table0, plan, truncated, fetched, added, warned, viz_read,
         last_poll, repeated>>
vars == <<store, env, script, obs>>

\* ------------------------------------------------------------------------
\* The rate provider (requests.get on api.exchangeratesapi.io)
\* ------------------------------------------------------------------------
KeyIndex(c) == CHOOSE i \in DOMAIN ProviderKeys : ProviderKeys[i] = c
BaseIndex(b) == IF b \in Range(ProviderKeys) THEN KeyIndex(b) ELSE 0

\* the rate of currency c for one unit of base b published for day d
Rate(d, b, c) == IF c = b THEN One ELSE 1000 + 100 * d + 10 * BaseIndex(b) + KeyIndex(c)

\* the keys of rsp['rates'] for base b
Keys(omits, b) == SelectSeq(ProviderKeys, LAMBDA c : c # b \/ b \notin omits)

\* the decoded answer for the rates published for day d under base b
Snapshot(omits, d, b) ==
    [base |-> b, date |-> d,
     rates |-> [c \in Range(Keys(omits, b)) |-> Rate(d, b, c)]]

\* The days whose rates the provider may answer a query for day q with: the
\* day itself, or for a weekend day the latest trading day before it.
AnswerDays(q) == {q, LastTradingDay(q)}

NoResponse == [base |-> None, date |-> NoDate, rates |-> <<>>]

\* ------------------------------------------------------------------------
\* Pure functions of the script
\* ------------------------------------------------------------------------
\* the range is taken as given when start = end
extract_dates_loose(start, end) == start <= end

\* extract_dates: the assertion start_date < end_date holds (line 47)
extract_dates(start, end) == start < end

\* the answer of the provider is returned whatever it holds
check_for_error_silent(ok) == FALSE

\* check_for_error: the decorator raises when the answer holds 'error',
\* i.e. when the call did not succeed (lines 57-59)
check_for_error(ok) == ~ok

\* no currency is reported as not valid
set_diff_none(countries, keys) == {}

\* set_diff: the currencies of -c that are not rate keys (line 213)
set_diff(countries, keys) == Range(countries) \ Range(keys)

\* rsp['rates'][x] raises KeyError for a rate key the answer does not hold
KeyMissing(rsp, keys, base_rate) ==
    \E i \in DOMAIN keys : keys[i] # base_rate /\ keys[i] \notin DOMAIN rsp.rates

\* get_insert_statement_and_values: the values of the row, i.e. the date, the
\* base of the answer and one value per rate key
get_insert_statement_and_values(rsp, date, keys, base_rate) ==
    [date |-> date, base |-> rsp.base,
     vals |-> [i \in DOMAIN keys |->
                 IF keys[i] = base_rate THEN One ELSE rsp.rates[keys[i]]]]

DatesIn(t) == {t[i].date : i \in DOMAIN t}

\* insert_into_table: the outcome of cursor.execute(statement, values)
\*   "OperationalError" when the number of values is not the number of columns,
\*   "IntegrityError" (swallowed) when the date already has a row
InsertOutcome(cols, t, row) ==
    IF Len(row.vals) # Len(cols) THEN "OperationalError"
    ELSE IF row.date \in DatesIn(t) THEN "IntegrityError"
    ELSE "ok"

\* a table without the primary key on date: the row is added again
insert_into_table_nokey(cols, t, row) ==
    IF InsertOutcome(cols, t, row) = "OperationalError" THEN t ELSE Append(t, row)

\* INSERT OR REPLACE: the row of the date is overwritten
insert_into_table_replace(cols, t, row) ==
    IF InsertOutcome(cols, t, row) = "OperationalError" THEN t
    ELSE IF InsertOutcome(cols, t, row) = "IntegrityError"
    THEN [i \in DOMAIN t |-> IF t[i].date = row.date THEN row ELSE t[i]]
    ELSE Append(t, row)

insert_into_table(cols, t, row) ==
    IF InsertOutcome(cols, t, row) = "ok" THEN Append(t, row) ELSE t

\* no connection.commit(): the rows of the store stay as of the commit before
commit_missing(t, c) == c

\* connection.commit() (lines 113, 256): the rows t of the connection become
\* the rows of the store, which held c.  What is not committed is rolled back
\* when an exception leaves the block `with sqlite3.connect(..) as conn`.
commit(t, c) == t

\* base_currency_to_use (line 238)
BaseToUse(arg_base, in_table, populate) ==
    IF in_table = None \/ populate THEN arg_base ELSE in_table

\* dates_to_pull of the populate pass (lines 250-257), as a set
DatesToPull(start, end, to_use, in_table, min_d, max_d) ==
    IF to_use = in_table
    THEN Range(DateRange(start, end)) \ Range(DateRange(min_d, max_d))
    ELSE Range(DateRange(start, end))

\* no DELETE FROM: the prior rows stay
Truncate_never(t, to_use, in_table) == t

\* DELETE FROM whatever the base
Truncate_always(t, to_use, in_table) == <<>>

\* the rows left by lines 252-256: DELETE FROM when the base to use is not
\* the base in the table
Truncate(t, to_use, in_table) == IF to_use = in_table THEN t ELSE <<>>

\* query_date when the update loop starts (lines 308-314)
FirstQueryDate(is_empty, max_d, start) == IF ~is_empty THEN max_d + 1 ELSE start

\* the comparison with >= : the row of today is pulled too
Due_inclusive(t, q) == t >= q

\* `if today_date > query_date` (line 317)
Due(t, q) == t > q

\* ------------------------------------------------------------------------
\* Initial state: no database file, no run started
\* ------------------------------------------------------------------------
NoArgs == [base |-> None, start |-> NoDate, end |-> NoDate, populate |-> FALSE,
           visualize |-> FALSE, update |-> FALSE, countries |-> <<>>]
NoPoll == [woke |-> FALSE, date |-> NoDate, outcome |-> None]

Init ==
    /\ table_exists = FALSE
    /\ columns = <<>>
    /\ table = <<>>
    /\ committed = <<>>
    /\ provider_omits \in OmitChoices
    /\ today = 0
    /\ pc = "idle"
    /\ args = NoArgs
    /\ response = NoResponse
    /\ rate_keys = <<>>
    /\ table_is_empty = TRUE
    /\ base_currency_in_table = None
    /\ base_currency_to_use = None
    /\ min_date_in_table = NoDate
    /\ max_date_in_table = NoDate
    /\ dates_to_pull = {}
    /\ ordered = TRUE
    /\ query_date = NoDate
    /\ error = None
    /\ runs = 0
    /\ table0 = <<>>
    /\ plan = {}
    /\ truncated = FALSE
    /\ fetched = {}
    /\ added = {}
    /\ warned = {}
    /\ viz_read = {}
    /\ last_poll = NoPoll
    /\ repeated = FALSE

Ended == {"idle", "done", "failed", "killed"}

\* ------------------------------------------------------------------------
\* Start of a run: lines 187-216
\* ------------------------------------------------------------------------
\* The command line is parsed, the dates are checked, the first API call is
\* made for start_date under args.base and the countries are validated.
Start(a, ok, day) ==
    /\ runs' = runs + 1
    /\ repeated' = (pc = "done" /\ a = args)
    /\ args' = a
    /\ table0' = table
    /\ plan' = {}
    /\ truncated' = FALSE
    /\ added' = {}
    /\ warned' = {}
    /\ viz_read' = {}
    /\ last_poll' = NoPoll
    /\ table_is_empty' = TRUE
    /\ base_currency_in_table' = None
    /\ base_currency_to_use' = None
    /\ min_date_in_table' = NoDate
    /\ max_date_in_table' = NoDate
    /\ dates_to_pull' = {}
    /\ ordered' = TRUE
    /\ query_date' = NoDate
    /\ UNCHANGED <<store, env>>
    /\ IF ~(a.populate \/ a.visualize \/ a.update)
       THEN \* sys.exit(): no action is taken
            /\ pc' = "done" /\ error' = None
            /\ response' = NoResponse /\ rate_keys' = <<>> /\ fetched' = {}
       ELSE IF ~extract_dates(a.start, a.end)
       THEN \* extract_dates: the assertion start_date < end_date fails
            /\ pc' = "failed" /\ error' = "range"
            /\ response' = NoResponse /\ rate_keys' = <<>> /\ fetched' = {}
       ELSE \* response = get_api_response(start_date)
            /\ fetched' = {[date |-> a.start, base |-> a.base, phase |-> "start"]}
            /\ IF check_for_error(ok)
               THEN /\ pc' = "failed" /\ error' = "source"
                    /\ response' = NoResponse /\ rate_keys' = <<>>
               ELSE /\ response' = Snapshot(provider_omits, day, a.base)
                    /\ rate_keys' = Keys(provider_omits, a.base)
                    /\ IF set_diff(a.countries, Keys(provider_omits, a.base)) = {}
                       THEN pc' = "open" /\ error' = None
                       ELSE pc' = "failed" /\ error' = "currency"

\* the command lines of the model: every range with start < end
ArgChoices ==
    {a \in [base : Bases, start : 0..MaxReq, end : 0..MaxReq, populate : BOOLEAN,
            visualize : BOOLEAN, update : BOOLEAN, countries : {<<"CAD">>}] :
        a.start < a.end /\ (a.populate \/ a.visualize \/ a.update)}

StartRun ==
    /\ pc \in Ended
    /\ runs < MaxRuns
    /\ \E a \in ArgChoices, ok \in BOOLEAN :
          \E day \in AnswerDays(a.start) : Start(a, ok, day)

\* the section of the script that runs after section `after`
NextPhase(after, a) ==
    IF after = "open" /\ a.populate THEN "populate"
    ELSE IF after \in {"open", "populate"} /\ a.visualize THEN "visualize"
    ELSE IF after \in {"open", "populate", "visualize"} /\ a.update THEN "update"
    ELSE "done"

\* ------------------------------------------------------------------------
\* Opening the store: lines 218-243
\* ------------------------------------------------------------------------
\* CREATE TABLE IF NOT EXISTS, then COUNT(*), DISTINCT(base), MIN/MAX(date).
\* DISTINCT(base) scans the table in rowid order: fetchone() is the base of
\* the oldest row.
OpenStore ==
    /\ pc = "open"
    /\ table_exists' = TRUE
    /\ columns' = IF table_exists THEN columns ELSE rate_keys
    /\ table_is_empty' = (Len(table) = 0)
    /\ base_currency_in_table' = IF Len(table) = 0 THEN None ELSE table[1].base
    /\ base_currency_to_use' =
          BaseToUse(args.base, IF Len(table) = 0 THEN None ELSE table[1].base,
                    args.populate)
    /\ min_date_in_table' = IF Len(table) = 0 THEN NoDate ELSE Min(DatesIn(table))
    /\ max_date_in_table' = IF Len(table) = 0 THEN NoDate ELSE Max(DatesIn(table))
    /\ pc' = NextPhase("open", args)
    /\ UNCHANGED <<table, committed, env, args, response, rate_keys, dates_to_pull,
                   ordered, query_date, error, obs>>

\* ------------------------------------------------------------------------
\* Populate: lines 249-271
\* ------------------------------------------------------------------------
\* lines 250-257: the dates to pull; the table is emptied when the base to
\* use is not the base in the table
PlanPopulate ==
    /\ pc = "populate"
    /\ dates_to_pull' = DatesToPull(args.start, args.end, base_currency_to_use,
                                    base_currency_in_table, min_date_in_table,
                                    max_date_in_table)
    /\ plan' = dates_to_pull'
    /\ ordered' = (base_currency_to_use # base_currency_in_table)
    /\ truncated' = (base_currency_to_use # base_currency_in_table)
    /\ table' = Truncate(table, base_currency_to_use, base_currency_in_table)
    /\ committed' = IF base_currency_to_use # base_currency_in_table
                    THEN commit(table', committed) ELSE committed
    /\ pc' = "pull"
    /\ UNCHANGED <<table_exists, columns, env, args, response, rate_keys,
                   table_is_empty, base_currency_in_table, base_currency_to_use,
                   min_date_in_table, max_date_in_table, query_date, error,
                   runs, table0, fetched, added, warned, viz_read, last_poll, repeated>>

\* The dates the loop `for dt in dates_to_pull` may take next: the least one
\* when dates_to_pull is the list date_range, any one when it is list(set(..)),
\* whose order is the hash order of the dates.
NextDates == IF ordered THEN {d \in dates_to_pull : d = Min(dates_to_pull)}
             ELSE dates_to_pull

\* lines 263-269: one iteration of the loop, for date dt
PullOne(dt, ok) ==
    /\ pc = "pull"
    /\ dt \in NextDates
    /\ LET call == ~IsWeekend(dt)
           rsp == IF call THEN Snapshot(provider_omits, dt, args.base) ELSE response
           row == get_insert_statement_and_values(rsp, dt, rate_keys,
                                                  base_currency_to_use)
       IN /\ fetched' = IF call
                        THEN fetched \cup {[date |-> dt, base |-> args.base,
                                            phase |-> "populate"]}
                        ELSE fetched
          /\ IF call /\ check_for_error(ok)
             THEN /\ pc' = "failed" /\ error' = "source"
                  /\ table' = committed
                  /\ UNCHANGED <<response, committed, added, dates_to_pull>>
             ELSE /\ response' = rsp
                  /\ IF KeyMissing(rsp, rate_keys, base_currency_to_use)
                     THEN /\ pc' = "failed" /\ error' = "key"
                          /\ table' = committed
                          /\ UNCHANGED <<committed, added, dates_to_pull>>
                     ELSE IF InsertOutcome(columns, table, row) = "OperationalError"
                     THEN /\ pc' = "failed" /\ error' = "columns"
                          /\ table' = committed
                          /\ UNCHANGED <<committed, added, dates_to_pull>>
                     ELSE /\ table' = insert_into_table(columns, table, row)
                          /\ committed' = commit(table', committed)
                          /\ added' = IF InsertOutcome(columns, table, row) = "ok"
                                      THEN added \cup {row} ELSE added
                          /\ dates_to_pull' = dates_to_pull \ {dt}
                          /\ UNCHANGED <<pc, error>>
    /\ UNCHANGED <<table_exists, columns, env, args, rate_keys, table_is_empty,
                   base_currency_in_table, base_currency_to_use, min_date_in_table,
                   max_date_in_table, ordered, query_date,
                   runs, table0, plan, truncated, warned, viz_read, last_poll, repeated>>

PopulateStep ==
    /\ pc = "pull"
    /\ \E dt \in dates_to_pull, ok \in BOOLEAN : PullOne(dt, ok)

\* the loop is over (or there was nothing to pull): line 271
PopulateDone ==
    /\ pc = "pull"
    /\ dates_to_pull = {}
    /\ min_date_in_table' = args.start
    /\ max_date_in_table' = args.end
    /\ pc' = NextPhase("populate", args)
    /\ UNCHANGED <<store, env, args, response, rate_keys, table_is_empty,
                   base_currency_in_table, base_currency_to_use, dates_to_pull,
                   ordered, query_date, error, obs>>

\* ------------------------------------------------------------------------
\* Visualization: lines 276-298
\* ------------------------------------------------------------------------
\* the countries selected: the -c list with the base to use appended
Selected == IF base_currency_to_use \in Range(args.countries)
            THEN Range(args.countries)
            ELSE Range(args.countries) \cup {base_currency_to_use}

Mismatch == args.base # base_currency_in_table /\ ~args.populate

Visualize ==
    /\ pc = "visualize"
    /\ IF table_is_empty /\ ~args.populate
       THEN \* "The table is not populated"
            /\ pc' = "failed" /\ error' = "empty"
            /\ UNCHANGED <<warned, viz_read>>
       ELSE /\ warned' = IF Mismatch THEN warned \cup {"Visualization"} ELSE warned
            /\ IF ~(args.start >= min_date_in_table /\ args.end <= max_date_in_table)
               THEN \* "The start|end date is not in the table"
                    /\ pc' = "failed" /\ error' = "date"
                    /\ UNCHANGED viz_read
               ELSE IF ~(Selected \subseteq Range(columns))
               THEN \* SELECT names a column the table does not have
                    /\ pc' = "failed" /\ error' = "columns"
                    /\ UNCHANGED viz_read
               ELSE /\ viz_read' = {d \in DatesIn(table) :
                                      min_date_in_table <= d /\ d <= max_date_in_table}
                    /\ pc' = NextPhase("visualize", args)
                    /\ UNCHANGED error
    /\ UNCHANGED <<store, env, args, response, rate_keys, table_is_empty,
                   base_currency_in_table, base_currency_to_use, min_date_in_table,
                   max_date_in_table, dates_to_pull, ordered, query_date,
                   runs, table0, plan, truncated, fetched, added, last_poll, repeated>>

\* ------------------------------------------------------------------------
\* Daily update: lines 303-324
\* ------------------------------------------------------------------------
\* lines 308-314: the first date to query
UpdateStart ==
    /\ pc = "update"
    /\ warned' = IF ~table_is_empty /\ Mismatch THEN warned \cup {"Update"} ELSE warned
    /\ query_date' = FirstQueryDate(table_is_empty, max_date_in_table, args.start)
    /\ pc' = "poll"
    /\ UNCHANGED <<store, env, args, response, rate_keys, table_is_empty,
                   base_currency_in_table, base_currency_to_use, min_date_in_table,
                   max_date_in_table, dates_to_pull, ordered, error,
                   runs, table0, plan, truncated, fetched, added, viz_read,
                   last_poll, repeated>>

\* lines 316-324: one iteration of `while True`
Wake(ok, day) ==
    /\ pc = "poll"
    /\ IF ~Due(today, query_date)
       THEN /\ last_poll' = [woke |-> TRUE, date |-> NoDate, outcome |-> None]
            /\ UNCHANGED <<table, committed, response, fetched, added, query_date,
                           pc, error>>
       ELSE LET rsp == Snapshot(provider_omits, day, args.base)
                row == get_insert_statement_and_values(rsp, query_date, rate_keys,
                                                       base_currency_to_use)
            IN /\ last_poll' = [woke |-> TRUE, date |-> query_date,
                                 outcome |-> IF ~ok THEN "source"
                                             ELSE IF KeyMissing(rsp, rate_keys,
                                                                base_currency_to_use)
                                             THEN "KeyError"
                                             ELSE InsertOutcome(columns, table, row)]
               /\ fetched' = fetched \cup {[date |-> query_date, base |-> args.base,
                                            phase |-> "update"]}
               /\ IF check_for_error(ok)
                  THEN /\ pc' = "failed" /\ error' = "source"
                       /\ table' = committed
                       /\ UNCHANGED <<response, committed, added, query_date>>
                  ELSE /\ response' = rsp
                       /\ IF KeyMissing(rsp, rate_keys, base_currency_to_use)
                          THEN /\ pc' = "failed" /\ error' = "key"
                               /\ table' = committed
                               /\ UNCHANGED <<committed, added, query_date>>
                          ELSE IF InsertOutcome(columns, table, row) = "OperationalError"
                          THEN /\ pc' = "failed" /\ error' = "columns"
                               /\ table' = committed
                               /\ UNCHANGED <<committed, added, query_date>>
                          ELSE /\ table' = insert_into_table(columns, table, row)
                               /\ committed' = commit(table', committed)
                               /\ added' = IF InsertOutcome(columns, table, row) = "ok"
                                           THEN added \cup {row} ELSE added
                               /\ query_date' = query_date + 1
                               /\ UNCHANGED <<pc, error>>
    /\ UNCHANGED <<table_exists, columns, env, args, rate_keys, table_is_empty,
                   base_currency_in_table, base_currency_to_use, min_date_in_table,
                   max_date_in_table, dates_to_pull, ordered,
                   runs, table0, plan, truncated, warned, viz_read, repeated>>

PollWake ==
    /\ pc = "poll"
    /\ \E ok \in BOOLEAN :
          \E day \in AnswerDays(query_date) : Wake(ok, day)

\* the wall clock advances while the poller sleeps
Tick ==
    /\ pc = "poll"
    /\ today < MaxToday
    /\ \E n \in 1..MaxJump : today + n <= MaxToday /\ today' = today + n
    /\ UNCHANGED <<store, provider_omits, script, obs>>

\* the poller ends only when the process is terminated from outside
Kill ==
    /\ pc = "poll"
    /\ pc' = "killed"
    /\ UNCHANGED <<store, env, args, response, rate_keys, table_is_empty,
                   base_currency_in_table, base_currency_to_use, min_date_in_table,
                   max_date_in_table, dates_to_pull, ordered, query_date, error, obs>>

Next ==
    \/ StartRun
    \/ OpenStore
    \/ PlanPopulate
    \/ PopulateStep
    \/ PopulateDone
    \/ Visualize
    \/ UpdateStart
    \/ PollWake
    \/ Tick
    \/ Kill

Spec == Init /\ [][Next]_vars

\* ------------------------------------------------------------------------
\* Runs of `-p` alone, one after the other
\* ------------------------------------------------------------------------
PopulateChoices == {a \in ArgChoices : a.populate /\ ~a.visualize /\ ~a.update}

StartPopulateRun ==
    /\ pc \in Ended
    /\ runs < MaxPopulateRuns
    /\ \E a \in PopulateChoices, ok \in BOOLEAN :
          \E day \in AnswerDays(a.start) : Start(a, ok, day)

NextPopulate ==
    \/ StartPopulateRun
    \/ OpenStore
    \/ PlanPopulate
    \/ PopulateStep
    \/ PopulateDone

SpecPopulate == Init /\ [][NextPopulate]_vars

\* ------------------------------------------------------------------------
\* Runs of any command line without -u: the dates in any order, a currency
\* of -c the provider does not know, no mode flag
\* ------------------------------------------------------------------------
CommandLines ==
    [base : Bases, start : 0..MaxReq, end : 0..MaxReq, populate : BOOLEAN,
     visualize : BOOLEAN, update : {FALSE}, countries : {<<"CAD">>, <<"XXX">>}]

StartCommandRun ==
    /\ pc \in Ended
    /\ runs < MaxCommandRuns
    /\ \E a \in CommandLines, ok \in BOOLEAN :
          \E day \in AnswerDays(a.start) : Start(a, ok, day)

NextCommand ==
    \/ StartCommandRun
    \/ OpenStore
    \/ PlanPopulate
    \/ PopulateStep
    \/ PopulateDone
    \/ Visualize

SpecCommand == Init /\ [][NextCommand]_vars

\* ------------------------------------------------------------------------
\* Runs of `-p`, of `-v` and of `-p -v`, one after the other
\* ------------------------------------------------------------------------
VisualizeChoices == {a \in ArgChoices : ~a.update}

StartVisualizeRun ==
    /\ pc \in Ended
    /\ runs < MaxVisualizeRuns
    /\ \E a \in VisualizeChoices, ok \in BOOLEAN :
          \E day \in AnswerDays(a.start) : Start(a, ok, day)

NextVisualize ==
    \/ StartVisualizeRun
    \/ OpenStore
    \/ PlanPopulate
    \/ PopulateStep
    \/ PopulateDone
    \/ Visualize

SpecVisualize == Init /\ [][NextVisualize]_vars

\* ------------------------------------------------------------------------
\* The poller left to run: the provider answers every call of the poller,
\* the process is not terminated from outside, the loop `while True` keeps
\* iterating and the wall clock keeps advancing (up to MaxToday)
\* ------------------------------------------------------------------------
LiveChoices == {a \in ArgChoices : ~a.visualize}

StartLiveRun ==
    /\ pc \in Ended
    /\ runs < MaxLiveRuns
    /\ \E a \in LiveChoices, ok \in BOOLEAN :
          \E day \in AnswerDays(a.start) : Start(a, ok, day)

\* one iteration of `while True` in which the provider answers
PollWakeAnswered ==
    /\ pc = "poll"
    /\ \E day \in AnswerDays(query_date) : Wake(TRUE, day)

NextLive ==
    \/ StartLiveRun
    \/ OpenStore
    \/ PlanPopulate
    \/ PopulateStep
    \/ PopulateDone
    \/ UpdateStart
    \/ PollWakeAnswered
    \/ Tick

SpecLive ==
    /\ Init /\ [][NextLive]_vars
    /\ WF_vars(PollWakeAnswered)
    /\ WF_vars(Tick)

\* ========================================================================
\* Properties
\* ========================================================================
Requested == Range(DateRange(args.start, args.end))

\* the populate pass of the run ran to its end (line 271 was reached)
PopulateCompleted == args.populate /\ pc \in {"visualize", "update", "poll", "done", "killed"}

\* the populate pass kept the base of the cache (lines 250-251)
Incremental == args.populate /\ base_currency_in_table # None
               /\ base_currency_to_use = base_currency_in_table

\* the populate pass changed the base of a non-empty cache (lines 252-257)
Rebuild == args.populate /\ base_currency_in_table # None
           /\ base_currency_to_use # base_currency_in_table

\* C1: after a populate run with the cache's existing base that ends without
\* an error, every requested date has a row, and the dates pulled are exactly
\* the requested dates that had no row when the run started.
C1_RequestedRangeCached ==
    (Incremental /\ PopulateCompleted) =>
        /\ Requested \subseteq DatesIn(table)
        /\ plan = Requested \ DatesIn(table0)

\* the rows of t0 are still rows of t, unchanged and in place
Kept(t0, t) == Len(t) >= Len(t0) /\ SubSeq(t, 1, Len(t0)) = t0

\* the cache is non-empty, the run asks for another base and has no -p
MismatchRun == base_currency_in_table # None /\ Mismatch

\* C2: in a run that requests a base other than the cached base B without -p,
\* no existing row is changed or deleted, the update phase warns instead of
\* failing, and every snapshot fetched and every row added is for base B.
C2_MismatchOperatesUnderCachedBase ==
    MismatchRun =>
        /\ Kept(table0, table)
        /\ (pc = "poll" => "Update" \in warned)
        /\ \A f \in fetched : f.base = base_currency_in_table
        /\ \A r \in added : r.base = base_currency_in_table

\* C3 as stated: a populate run that requests a base other than the cached
\* base deletes all prior rows before it fetches anything, and when it
\* completes the cache holds exactly one row per requested date, each with
\* the requested base, and no other row.
C3_PurgeBeforeAnyFetch ==
    Rebuild =>
        /\ (fetched # {} => Range(table) \cap Range(table0) = {})
        /\ (pc = "done" =>
               /\ DatesIn(table) = Requested
               /\ Len(table) = Cardinality(Requested)
               /\ \A i \in DOMAIN table : table[i].base = args.base)

\* C3 amended: the one call made before the store is opened (the call for
\* start_date, line 205) comes first; the prior rows are deleted before any
\* date of the pass is fetched or inserted, and when the run completes the
\* cache holds exactly one row per requested date, each with the requested
\* base, and no other row.
C3_PurgeBeforePass ==
    Rebuild =>
        /\ ((\E f \in fetched : f.phase = "populate") \/ added # {} \/ pc = "done")
               => Range(table) \cap Range(table0) = {}
        /\ (pc = "done" =>
               /\ DatesIn(table) = Requested
               /\ Len(table) = Cardinality(Requested)
               /\ \A i \in DOMAIN table : table[i].base = args.base)

C3_Witness ==
    /\ Rebuild /\ pc = "done" /\ truncated
    /\ table0 # <<>> /\ table # <<>>
    /\ \E i \in DOMAIN table : IsWeekend(table[i].date)

\* The value lists that hold the rates of the latest trading day before the
\* weekend day d, as a pass of this run writes them.  What the provider
\* answers for a weekend day since that trading day counts as its rates.
CarriedForward(d) ==
    {get_insert_statement_and_values(
         Snapshot(provider_omits, day, args.base), d, rate_keys,
         base_currency_to_use).vals : day \in LastTradingDay(d)..d}

\* C4: every Saturday or Sunday row written by a populate pass holds exactly
\* the rates of the snapshot of the most recent trading day before that date.
C4_WeekendCarryForward ==
    \A r \in added : IsWeekend(r.date) => r.vals \in CarriedForward(r.date)

\* C5: a populate run that repeats the command line of the run before it,
\* which ran to its end, inserts no row and leaves the cache as it found it.
C5_RepeatedPopulateIsNoOp ==
    (repeated /\ args.populate) => (added = {} /\ table = table0)

C5_Witness ==
    /\ repeated /\ args.populate /\ pc = "done"
    /\ plan = {} /\ ~truncated
    /\ Len(table) >= 2

Unique(t) == \A i, j \in DOMAIN t : t[i].date = t[j].date => i = j

\* C6: inserting a row for a date that already has a row changes nothing:
\* the stored rows stay as they are, no date gets a second row, and no error
\* ends the run, so the pass or the poller goes on with the next date.
C6_InsertExistingIsNoOp ==
    [][/\ (/\ pc = "poll" /\ today > query_date /\ query_date \in DatesIn(table)
           /\ today' = today /\ pc' # "killed" /\ error' # "source")
          => (/\ table' = table /\ pc' = "poll" /\ error' = None
              /\ query_date' = query_date + 1)
       /\ (/\ pc = "pull" /\ dates_to_pull' # dates_to_pull
           /\ (dates_to_pull \ dates_to_pull') \subseteq DatesIn(table))
          => (table' = table /\ pc' = "pull" /\ error' = None)
       /\ Unique(table')]_vars

C6_Witness ==
    /\ pc = "poll"
    /\ last_poll.outcome = "IntegrityError"
    /\ query_date = last_poll.date + 1
    /\ last_poll.date \in DatesIn(table)

\* The first half of C7: the base to use is the requested base when the
\* cache was empty or -p was given, and the base of the cache otherwise.
BaseResolution ==
    base_currency_to_use # None =>
        IF table0 = <<>> \/ args.populate
        THEN base_currency_to_use = args.base
        ELSE /\ base_currency_to_use = base_currency_in_table
             /\ base_currency_to_use \in {table0[i].base : i \in DOMAIN table0}

\* C7: the effective base of a run is the requested base when the cache is
\* empty or -p was given and the cached base otherwise, and the update loop
\* works under that base: its calls ask for it and its rows carry it.
C7_EffectiveBase ==
    /\ BaseResolution
    /\ \A f \in fetched : f.phase = "update" => f.base = base_currency_to_use
    /\ (pc \in {"poll", "killed"} => \A r \in added : r.base = base_currency_to_use)

\* row r holds 1.0 in the column named by its base
BaseRateIsOne(cols, r) ==
    \E k \in DOMAIN cols : cols[k] = r.base /\ k \in DOMAIN r.vals /\ r.vals[k] = One

\* C8: every row of the cache stores 1.0 for the currency named in its own
\* base column, also when the provider leaves the base out of its rates.
C8_BaseRateIsOne == \A i \in DOMAIN table : BaseRateIsOne(columns, table[i])

\* C9: when the update loop starts, query_date is one day after the greatest
\* date in the cache if the cache is non-empty then, else the start date.
C9_CursorStartsAfterCache ==
    (pc = "poll" /\ ~last_poll.woke) =>
        query_date = IF table = <<>> THEN args.start ELSE Max(DatesIn(table)) + 1

\* C10: a wake-up of the poller handles at most one date.  Only when today
\* is after query_date does it call the provider, for query_date alone, add
\* at most one row, dated query_date, and advance query_date by one day; no
\* row it adds is dated today or later.
C10_OneDatePerWakeUp ==
    [][pc = "poll" =>
        /\ table' # table =>
              /\ today > query_date
              /\ Len(table') = Len(table) + 1
              /\ SubSeq(table', 1, Len(table)) = table
              /\ table'[Len(table')].date = query_date
              /\ table'[Len(table')].date < today
              /\ query_date' = query_date + 1
        /\ query_date' # query_date =>
              /\ today > query_date
              /\ query_date' = query_date + 1
        /\ fetched' # fetched =>
              /\ today > query_date
              /\ fetched' = fetched \cup {[date |-> query_date, base |-> args.base,
                                           phase |-> "update"]}
        /\ ~(today > query_date) =>
              (table' = table /\ query_date' = query_date /\ fetched' = fetched)
      ]_vars

\* the poller was three days or more behind and added one row
C10_Witness ==
    /\ pc = "poll"
    /\ last_poll.outcome = "ok"
    /\ today - last_poll.date >= 3
    /\ query_date = last_poll.date + 1
    /\ \E r \in added : r.date = last_poll.date

\* the API calls the poller of the run has made
PollerFetched == {f \in fetched : f.phase = "update"}

\* C11: when the cursor of the poller is a Saturday or Sunday and is due, the
\* poller makes no provider call for that date and inserts a row holding the
\* rates of the most recent trading day.
C11_PollerWeekendCarryForward ==
    /\ \A f \in PollerFetched : ~IsWeekend(f.date)
    /\ (pc = "poll" /\ last_poll.date # NoDate /\ IsWeekend(last_poll.date)
          /\ last_poll.outcome = "ok") =>
         \E r \in added : /\ r.date = last_poll.date
                          /\ r.vals = get_insert_statement_and_values(
                                        Snapshot(provider_omits,
                                                 LastTradingDay(last_poll.date),
                                                 args.base),
                                        last_poll.date, rate_keys,
                                        base_currency_to_use).vals

\* a call of the populate pass failed: the date it was made for is still in
\* dates_to_pull
PopulateFailed == pc = "failed" /\ error = "source" /\ dates_to_pull # {}

\* the rows the populate pass started from: none after DELETE FROM
PassStart == IF truncated THEN <<>> ELSE table0

\* C12: when a fetch fails during a populate pass the pass stops: of the
\* dates not yet processed only the failing one has been fetched and none has
\* a row, and the rows inserted before the failure are in the store, after
\* the rows the pass started from.
C12_PopulateStopsAtFailure ==
    PopulateFailed =>
        /\ Cardinality({f \in fetched : f.phase = "populate"
                                         /\ f.date \in dates_to_pull}) = 1
        /\ {r.date : r \in added} = plan \ dates_to_pull
        /\ Kept(PassStart, table)
        /\ {table[i] : i \in (Len(PassStart) + 1)..Len(table)} = added
        /\ Len(table) = Len(PassStart) + Cardinality(added)

\* a pass failed after it inserted rows and before its last date
C12_Witness == PopulateFailed /\ added # {} /\ Cardinality(dates_to_pull) > 1

\* C13: when the provider answers the poller with an error, the error ends
\* the poller: no row is inserted for the date, the cursor stays on it, and
\* the run makes no further step (the call is not made again).
C13_PollerEndsAtSourceError ==
    [][/\ (pc = "poll" /\ last_poll'.outcome = "source") =>
             /\ pc' = "failed" /\ error' = "source"
             /\ table' = table /\ added' = added
             /\ query_date' = query_date /\ last_poll'.date = query_date
       /\ (pc = "failed" /\ last_poll.outcome = "source") => runs' = runs + 1
      ]_vars

\* the poller inserted a row, then got an error for the next date
C13_Witness ==
    /\ pc = "failed" /\ last_poll.outcome = "source"
    /\ \E r \in added : r.date + 1 = query_date

AnyFlag(a) == a.populate \/ a.visualize \/ a.update

\* the run has not read the store: the reads of lines 231-243 set the base
\* to use
StoreNotOpened == base_currency_to_use = None /\ base_currency_in_table = None

\* the store is as the run found it; the first run found no table
StoreUntouched ==
    /\ table = table0 /\ committed = table0
    /\ runs = 1 => (~table_exists /\ columns = <<>>)

\* C14: a run with a mode flag whose start date is not strictly before its
\* end date fails with the range error, having made no call to the provider
\* and with the store not opened, not created and not changed.  (Without a
\* mode flag the script takes no action at all, whatever the dates.)
C14_RangeErrorFirst ==
    (runs > 0 /\ args.start >= args.end) =>
        /\ fetched = {} /\ StoreNotOpened /\ StoreUntouched
        /\ IF AnyFlag(args) THEN pc = "failed" /\ error = "range"
                            ELSE pc = "done" /\ error = None

\* a populate run with start = end was refused on a cache that has rows
C14_Witness ==
    /\ error = "range" /\ table # <<>>
    /\ args.populate /\ args.start = args.end

\* C15: for start strictly before end, date_range is the ascending sequence
\* without duplicate and without gap of all the dates from start to end
\* inclusive, weekend days too; its length is (end - start).days + 1.
C15_DateRangeContiguous ==
    (runs > 0 /\ args.start < args.end) =>
        LET r == DateRange(args.start, args.end)
        IN /\ Len(r) = (args.end - args.start) + 1
           /\ r[1] = args.start /\ r[Len(r)] = args.end
           /\ \A i \in 1..(Len(r) - 1) : r[i + 1] = r[i] + 1
           /\ \A d \in args.start..args.end : \E i \in DOMAIN r : r[i] = d
           /\ (pc = "pull" /\ truncated) => plan = args.start..args.end

\* a rebuild over a range that holds a Saturday and a Sunday
C15_Witness ==
    /\ pc = "pull" /\ truncated
    /\ \E d \in plan : isoweekday(d) = 6
    /\ \E d \in plan : isoweekday(d) = 7
    /\ \E d \in plan : ~IsWeekend(d)

\* the visualization of the run selected rows
VisualizeRead == args.visualize /\ viz_read # {}

\* the visualization of the run was refused for the dates or the empty table
VisualizeRefused == args.visualize /\ pc = "failed" /\ error \in {"date", "empty"}

\* the run has reached its visualization and is past the checks of lines
\* 276-285: it selected rows or failed there (a populate pass that fails
\* leaves the failing date in dates_to_pull)
VisualizeChecked ==
    /\ args.visualize
    /\ \/ VisualizeRead
       \/ pc = "failed" /\ error \in {"date", "empty", "columns"} /\ dates_to_pull = {}

\* C16: a visualization fails with the date-not-in-cache error whenever some
\* date of the requested range has no row in the cache, and reads rows only
\* when every date of the requested range has a row.
C16_VisualizeNeedsFullCover ==
    /\ VisualizeRead => Requested \subseteq DatesIn(table)
    /\ (VisualizeChecked /\ ~(Requested \subseteq DatesIn(table))) => VisualizeRefused

\* C17: within one populate pass the dates are processed in strictly
\* ascending order, whether the pass rebuilds the cache or fills it: every
\* date already processed is before every date still to process.
C17_AscendingPopulateOrder ==
    args.populate =>
        \A d \in plan \ dates_to_pull : \A e \in dates_to_pull : d < e

\* C18: rows leave the cache only through the DELETE FROM of a populate run
\* whose requested base is not the base of the cache; every other step of a
\* populate run, of a visualization and of the poller keeps every row that
\* is there, with its values, in its place.
C18_RowsLeaveOnlyByPurge ==
    [][\/ Kept(table, table')
       \/ /\ pc = "populate" /\ args.populate
          /\ args.base # base_currency_in_table
          /\ table' = <<>>
      ]_vars

\* the poller went over dates the populate pass of its run had inserted on
\* top of older rows, after a visualization
C18_Witness ==
    /\ pc = "poll" /\ args.populate /\ args.visualize /\ viz_read # {}
    /\ table0 # <<>> /\ ~truncated /\ added # {}
    /\ last_poll.outcome = "IntegrityError"

\* the run acts on a valid range and names with -c a currency the provider
\* does not know
InvalidCurrencyRun ==
    /\ runs > 0 /\ AnyFlag(args) /\ args.start < args.end
    /\ \E c \in Range(args.countries) : c \notin Range(ProviderKeys)

\* C19 as stated: a filter currency that is not in the provider's known set
\* makes the run fail before any snapshot is fetched and before the store is
\* created, opened or written.
C19_CurrencyErrorBeforeAnyFetch ==
    InvalidCurrencyRun =>
        /\ pc = "failed" /\ fetched = {}
        /\ StoreNotOpened /\ StoreUntouched

\* C19, amended: such a run fails right after its one call for the start
\* date, which tells it the currencies the provider knows (or on that call):
\* it fetches no other snapshot and the store is not created, not opened and
\* not written.
C19_CurrencyErrorAfterBootstrap ==
    InvalidCurrencyRun =>
        /\ pc = "failed" /\ error \in {"currency", "source"}
        /\ error = "currency" => response.base = args.base
        /\ fetched = {[date |-> args.start, base |-> args.base, phase |-> "start"]}
        /\ StoreNotOpened /\ StoreUntouched

\* a run was refused for its currency on a cache that has rows
C19_Witness == InvalidCurrencyRun /\ error = "currency" /\ table # <<>>

\* C20: when the wall clock keeps advancing and the provider answers every
\* call, the poller catches up: for every date d from its cursor onward,
\* once today is after d a row for d eventually exists; and the cursor moves
\* by one date at a time, only past a date whose insert it has made.
C20_PollerCatchesUp ==
    /\ \A d \in 0..(MaxToday - 1) :
          (pc = "poll" /\ query_date <= d /\ d < today) ~> (d \in DatesIn(table))
    /\ [][(pc = "poll" /\ query_date' # query_date) =>
             /\ query_date' = query_date + 1
             /\ last_poll'.date = query_date
             /\ query_date \in DatesIn(table')]_vars

\* C21: in every state of the cache, whatever runs came before and however
\* they ended, all the rows carry the same base, and that base is what a run
\* reads as base_currency_in_table when it opens the store on these rows.
C21_SingleBaseInCache ==
    /\ \A i, j \in DOMAIN table : table[i].base = table[j].base
    /\ (base_currency_to_use # None /\ table0 # <<>>) =>
          \A i \in DOMAIN table0 : table0[i].base = base_currency_in_table

\* an INSERT of the run raised sqlite3.OperationalError: in the populate loop
\* (the date is still in dates_to_pull) or in the poller
InsertFailedOnColumns ==
    /\ pc = "failed" /\ error = "columns"
    /\ dates_to_pull # {} \/ last_poll.outcome = "OperationalError"

\* C22: the rows a run builds have exactly the currency columns the table
\* was created with (one value per rate key of the run, the rate keys being
\* the columns), so no insert fails on a column mismatch, also when the run
\* empties a table created under another base.
C22_RowsFitTheTable ==
    /\ (base_currency_to_use # None) => rate_keys = columns
    /\ ~InsertFailedOnColumns

====
